---------------------------- MODULE Spec2Model ----------------------------
(***************************************************************************)
(* Model of snakemake_storage_plugin_irods/__init__.py: the settings       *)
(* record, the storage provider and the storage object, together with the  *)
(* parts of urllib.parse, pathlib and the iRODS client that decide what    *)
(* the plugin's methods do.                                                *)
(*                                                                         *)
(* Text is modelled as a sequence of one-character strings, so that        *)
(* parsing, stripping and joining are computed character by character.     *)
(***************************************************************************)
EXTENDS Integers, Sequences, FiniteSets, TLC

VARIABLES
    query,        \* StorageObject.query / the argument of is_valid_query
    parts,        \* the pieces the query was written from (for stating claims)
    validation,   \* result of StorageProvider.is_valid_query, or NoValue
    objPath,      \* StorageObject.path as text (str(self.path)), or NoValue
    suffix,       \* result of StorageObject.local_suffix(), or NoValue
    explicit,     \* the values the caller passes to StorageProviderSettings
    envFile,      \* ~/.irods/irods_environment.json
    irodsA,       \* ~/.irods/.irodsA: NoValue when it cannot be opened
    settings,     \* the StorageProviderSettings instance, or NoValue
    sessions,     \* the iRODSSession objects constructed so far
    initState,    \* where start-up is: "new", "configured", "ready", "failed"
    initError,    \* the exception that ended start-up, or NoText
    colls,        \* the remote collections (paths as tuples of names)
    objs,         \* the remote data objects: path -> content
    noaccess,     \* collections whose lookup raises CAT_NO_ACCESS_PERMISSION
    faults,       \* transient failures the network has produced so far
    task          \* per parallel task: its StorageObject and the call it is in

initVars == <<explicit, envFile, irodsA, settings, sessions, initState, initError>>

queryVars == <<query, parts, validation, objPath, suffix>>

remoteVars == <<colls, objs, noaccess, faults, task>>

vars == <<queryVars, initVars, remoteVars>>

\* Python's None for a text or record value, and a value that is present
NoValue == <<>>

Some(v) == <<v>>

NoText == "None"

(***************************************************************************)
(* Text helpers: str.find, str.lstrip, str.lower, slicing.                 *)
(***************************************************************************)
UpperChars == <<"A","B","C","D","E","F","G","H","I","J","K","L","M",
                "N","O","P","Q","R","S","T","U","V","W","X","Y","Z">>

LowerChars == <<"a","b","c","d","e","f","g","h","i","j","k","l","m",
                "n","o","p","q","r","s","t","u","v","w","x","y","z">>

DigitChars == {"0","1","2","3","4","5","6","7","8","9"}

Range(s) == { s[i] : i \in DOMAIN s }

IsAlpha(c) == c \in Range(UpperChars) \cup Range(LowerChars)

LowerChar(c) ==
    IF c \in Range(UpperChars)
    THEN LowerChars[CHOOSE i \in DOMAIN UpperChars : UpperChars[i] = c]
    ELSE c

LowerText(s) == [i \in DOMAIN s |-> LowerChar(s[i])]

\* s[from:] and s[:to] with 0-based Python indices
Drop(s, n) == SubSeq(s, n + 1, Len(s))

Take(s, n) == SubSeq(s, 1, n)

\* s.find(c, start): 0-based index of the first c at or after start, or -1
Find(s, c, start) ==
    LET hits == { i \in (start + 1)..Len(s) : s[i] = c }
    IN  IF hits = {} THEN -1
        ELSE (CHOOSE i \in hits : \A j \in hits : i <= j) - 1

\* s.rfind(c)
RFind(s, c) ==
    LET hits == { i \in 1..Len(s) : s[i] = c }
    IN  IF hits = {} THEN -1
        ELSE (CHOOSE i \in hits : \A j \in hits : i >= j) - 1

\* s.lstrip(c)
RECURSIVE LStrip(_, _)
LStrip(s, c) ==
    IF s # <<>> /\ Head(s) = c THEN LStrip(Tail(s), c) ELSE s

\* s.split(c)
RECURSIVE Split(_, _)
Split(s, c) ==
    LET i == Find(s, c, 0)
    IN  IF i < 0 THEN <<s>>
        ELSE <<Take(s, i)>> \o Split(Drop(s, i + 1), c)

\* c.join(list)
RECURSIVE Join(_, _)
Join(list, c) ==
    IF list = <<>> THEN <<>>
    ELSE IF Len(list) = 1 THEN list[1]
    ELSE list[1] \o <<c>> \o Join(Tail(list), c)

\* the sub-sequence of the elements satisfying a membership test
RECURSIVE Without(_, _)
Without(list, drop) ==
    IF list = <<>> THEN <<>>
    ELSE IF Head(list) \in drop THEN Without(Tail(list), drop)
    ELSE <<Head(list)>> \o Without(Tail(list), drop)

(***************************************************************************)
(* urllib.parse.urlparse, as called at lines 301 and 327.                  *)
(***************************************************************************)
SchemeChars == Range(UpperChars) \cup Range(LowerChars) \cup DigitChars
                 \cup {"+", "-", "."}

\* urllib.parse.uses_params
UsesParams ==
    { <<>>,
      <<"f","t","p">>, <<"h","d","l">>,
      <<"p","r","o","s","p","e","r","o">>,
      <<"h","t","t","p">>, <<"i","m","a","p">>,
      <<"h","t","t","p","s">>, <<"s","h","t","t","p">>,
      <<"r","t","s","p">>, <<"r","t","s","p","u">>,
      <<"s","i","p">>, <<"s","i","p","s">>, <<"m","m","s">>,
      <<"s","f","t","p">>, <<"t","e","l">> }

\* first index among '/', '?', '#' at or after start, else len(url)
NetlocEnd(url, start) ==
    LET ds == { Find(url, c, start) : c \in {"/", "?", "#"} } \ {-1}
    IN  IF ds = {} THEN Len(url)
        ELSE CHOOSE d \in ds : \A e \in ds : d <= e

\* urllib.parse._splitparams: the path without its ';params'
SplitParams(url) ==
    LET i == IF Find(url, "/", 0) >= 0
             THEN Find(url, ";", RFind(url, "/"))
             ELSE Find(url, ";", 0)
    IN  IF i < 0 THEN url ELSE Take(url, i)

UrlParse(url) ==
    LET i      == Find(url, ":", 0)
        hasSch == /\ i > 0
                  /\ IsAlpha(url[1])
                  /\ \A k \in 1..i : url[k] \in SchemeChars
        scheme == IF hasSch THEN LowerText(Take(url, i)) ELSE <<>>
        rest1  == IF hasSch THEN Drop(url, i + 1) ELSE url
        hasNet == Len(rest1) >= 2 /\ rest1[1] = "/" /\ rest1[2] = "/"
        delim  == NetlocEnd(rest1, 2)
        netloc == IF hasNet THEN SubSeq(rest1, 3, delim) ELSE <<>>
        rest2  == IF hasNet THEN Drop(rest1, delim) ELSE rest1
        f      == Find(rest2, "#", 0)
        rest3  == IF f >= 0 THEN Take(rest2, f) ELSE rest2
        q      == Find(rest3, "?", 0)
        rest4  == IF q >= 0 THEN Take(rest3, q) ELSE rest3
        path   == IF scheme \in UsesParams /\ Find(rest4, ";", 0) >= 0
                  THEN SplitParams(rest4) ELSE rest4
    IN  [scheme |-> scheme, netloc |-> netloc, path |-> path]

(***************************************************************************)
(* pathlib.PosixPath: PosixPath(a) / b and str() of the result.            *)
(***************************************************************************)
RECURSIVE LeadingSlashes(_)
LeadingSlashes(s) ==
    IF s # <<>> /\ Head(s) = "/" THEN 1 + LeadingSlashes(Tail(s)) ELSE 0

\* the normalised text of a path: root, then the components that are neither
\* empty nor '.', joined by '/'; '.' for the empty relative path
PosixText(s) ==
    LET n     == LeadingSlashes(s)
        root  == IF n = 0 THEN <<>> ELSE IF n = 2 THEN <<"/", "/">> ELSE <<"/">>
        comps == Without(Split(s, "/"), {<<>>, <<".">>})
        body  == Join(comps, "/")
    IN  IF root = <<>> /\ body = <<>> THEN <<".">> ELSE root \o body

\* str(PosixPath(a) / b): posixpath.join, then the normalisation
PosixJoin(a, b) ==
    IF b # <<>> /\ Head(b) = "/" THEN PosixText(b)
    ELSE IF a = <<>> \/ a[Len(a)] = "/" THEN PosixText(a \o b)
    ELSE PosixText(a \o <<"/">> \o b)

(***************************************************************************)
(* Locators the host engine may hand to the plugin: scheme, separator,     *)
(* host segment and path segments, written out as text.                    *)
(***************************************************************************)
MaxSegs == 2

IrodsScheme == <<"i","r","o","d","s">>

Schemes == { IrodsScheme, <<"I","R","O","D","S">>, <<"s","3">>,
             <<"h","t","t","p">>, <<>> }

Seps == { <<":","/","/">>, <<":">>, <<>> }

\* names free of '/', '?', '#', ';' and different from '' and '.';
\* '{s}' and '{z}' are unresolved wildcard placeholders
PlainSegs == { <<"a">>, <<"b",".","t">>, <<"{","s","}">>, <<"{","z","}">> }

OddSegs == { <<>>, <<".">>, <<"a",";","p">>, <<"a","?","q">> }

Hosts == { <<>>, <<"z">>, <<"{","z","}">> }

Segs == (PlainSegs \ {<<"{","z","}">>}) \cup OddSegs

SegLists == UNION { [1..n -> Segs] : n \in 0..MaxSegs }

RECURSIVE PathText(_)
PathText(segs) ==
    IF segs = <<>> THEN <<>>
    ELSE <<"/">> \o Head(segs) \o PathText(Tail(segs))

QueryText(p) == p.scheme \o p.sep \o p.host \o PathText(p.segs)

QueryParts == [scheme : Schemes, sep : Seps, host : Hosts, segs : SegLists]

(***************************************************************************)
(* StorageProvider.is_valid_query (lines 295-310)                          *)
(***************************************************************************)
InvalidReason == "Query does not start with irods:// or does not contain a path to a file or directory."

\* variant: the path component is not looked at
QueryAccepted_SchemeOnly(parsed) == parsed.scheme = IrodsScheme

QueryAccepted(parsed) == parsed.scheme = IrodsScheme /\ parsed.path # <<>>

is_valid_query(q) ==
    LET parsed == UrlParse(q)
    IN  IF QueryAccepted(parsed)
        THEN [valid |-> TRUE, query |-> q, reason |-> NoText]
        ELSE [valid |-> FALSE, query |-> q, reason |-> InvalidReason]

(***************************************************************************)
(* StorageObject.__post_init__ (lines 323-330) and local_suffix (350-352)  *)
(***************************************************************************)
\* variant: the host segment is left out of the remote path
ResolvedPath_NoNetloc(q) ==
    LET parsed_query == UrlParse(q)
    IN  PosixJoin(<<"/">>, LStrip(parsed_query.path, "/"))

ResolvedPath(q) ==
    LET parsed_query == UrlParse(q)
    IN  PosixJoin(<<"/">> \o parsed_query.netloc, LStrip(parsed_query.path, "/"))

local_suffix(path) == LStrip(path, "/")

\* no locator is being looked at
QueryIdle ==
    /\ parts = [scheme |-> <<>>, sep |-> <<>>, host |-> <<>>, segs |-> <<>>]
    /\ query = <<>>
    /\ validation = NoValue
    /\ objPath = NoValue
    /\ suffix = NoValue

QueryInit ==
    /\ parts \in QueryParts
    /\ query = QueryText(parts)
    /\ validation = NoValue
    /\ objPath = NoValue
    /\ suffix = NoValue

IsValidQuery ==
    /\ validation = NoValue
    /\ validation' = Some(is_valid_query(query))
    /\ UNCHANGED <<query, parts, objPath, suffix>>
    /\ UNCHANGED <<initVars, remoteVars>>

ObjectPostInit ==
    /\ objPath = NoValue
    /\ objPath' = Some(ResolvedPath(query))
    /\ UNCHANGED <<query, parts, validation, suffix>>
    /\ UNCHANGED <<initVars, remoteVars>>

LocalSuffix ==
    /\ objPath # NoValue
    /\ suffix = NoValue
    /\ suffix' = Some(local_suffix(objPath[1]))
    /\ UNCHANGED <<query, parts, validation, objPath>>
    /\ UNCHANGED <<initVars, remoteVars>>

QueryNext == IsValidQuery \/ ObjectPostInit \/ LocalSuffix

(***************************************************************************)
(* StorageProviderSettings (lines 44-206).  Every value is kept as text.   *)
(***************************************************************************)
FieldDefaults ==
    [ host |-> NoValue,
      port |-> NoValue,
      username |-> NoValue,
      password |-> NoValue,
      zone |-> NoValue,
      home |-> NoValue,
      authentication_scheme |-> Some("native"),
      encryption_algorithm |-> Some("AES-256-CBC"),
      encryption_key_size |-> Some("32"),
      encryption_num_hash_rounds |-> Some("16"),
      encryption_salt_size |-> Some("8"),
      client_server_negotiation |-> NoValue,
      client_server_policy |-> Some("CS_NEG_REFUSE"),
      ssl_verify_server |-> Some("hostname"),
      ssl_ca_certificate_file |-> NoValue,
      use_ssl |-> Some("False") ]

FieldNames == DOMAIN FieldDefaults

\* the retrieve(src, trgt) calls of __post_init__, in order
EnvKeys ==
    << <<"irods_host", "host">>,
       <<"irods_port", "port">>,
       <<"irods_user_name", "username">>,
       <<"irods_password", "password">>,
       <<"irods_zone_name", "zone">>,
       <<"irods_authentication_scheme", "authentication_scheme">>,
       <<"irods_home", "home">>,
       <<"irods_encryption_algorithm", "encryption_algorithm">>,
       <<"irods_encryption_key_size", "encryption_key_size">>,
       <<"irods_encryption_num_hash_rounds", "encryption_num_hash_rounds">>,
       <<"irods_encryption_salt_size", "encryption_salt_size">>,
       <<"irods_client_server_negotiation", "client_server_negotiation">>,
       <<"irods_client_server_policy", "client_server_policy">>,
       <<"irods_ssl_verify_server", "ssl_verify_server">>,
       <<"irods_ssl_ca_certificate_file", "ssl_ca_certificate_file">> >>

\* the dataclass constructor: a supplied value, else the field default
Constructed(given) ==
    [f \in FieldNames |-> IF f \in DOMAIN given THEN given[f] ELSE FieldDefaults[f]]

\* variant: a descriptor-file value only fills a field that is still None
Retrieve_FillUnset(self, env, src, trgt) ==
    IF src \in DOMAIN env /\ self[trgt] = NoValue
    THEN [self EXCEPT ![trgt] = env[src]]
    ELSE self

\* retrieve(src, trgt), lines 188-190
Retrieve(self, env, src, trgt) ==
    IF src \in DOMAIN env THEN [self EXCEPT ![trgt] = env[src]] ELSE self

RECURSIVE ApplyRetrieves(_, _, _)
ApplyRetrieves(self, env, pairs) ==
    IF pairs = <<>> THEN self
    ELSE ApplyRetrieves(Retrieve(self, env, Head(pairs)[1], Head(pairs)[2]),
                        env, Tail(pairs))

\* StorageProviderSettings.__post_init__, lines 182-206
SettingsPostInit(self, file) ==
    IF file.state = "ok" THEN ApplyRetrieves(self, file.env, EnvKeys) ELSE self

(***************************************************************************)
(* The inputs of start-up: what the caller passes, what the descriptor     *)
(* file holds, what the credential cache holds.                            *)
(***************************************************************************)
\* fields the caller always supplies, and fields it may or may not supply
AlwaysGiven ==
    [ username |-> Some("alice"), zone |-> Some("z"), port |-> Some("1247") ]

MaybeGiven ==
    [ host |-> Some("cli.host"),
      password |-> Some("clipw"),
      authentication_scheme |-> Some("pam_password"),
      encryption_key_size |-> Some("64"),
      use_ssl |-> Some("True") ]

ExplicitChoices ==
    { [f \in (DOMAIN AlwaysGiven) \cup G |->
            IF f \in G THEN MaybeGiven[f] ELSE AlwaysGiven[f]]
        : G \in SUBSET (DOMAIN MaybeGiven) }

\* the values a descriptor file may hold under a key; JSON null is NoValue
FileValues ==
    [ irods_host |-> {Some("env.host")},
      irods_password |-> {Some("envpw"), NoValue},
      irods_authentication_scheme |-> {Some("pam_interactive")},
      irods_encryption_key_size |-> {Some("24")} ]

AllFileValues == UNION { FileValues[k] : k \in DOMAIN FileValues }

EnvChoices ==
    UNION { { e \in [K -> AllFileValues] : \A k \in K : e[k] \in FileValues[k] }
              : K \in SUBSET (DOMAIN FileValues) }

EnvFileChoices ==
    { [state |-> "absent", env |-> <<>>], [state |-> "malformed", env |-> <<>>] }
      \cup { [state |-> "ok", env |-> e] : e \in EnvChoices }

(***************************************************************************)
(* irods.password_obfuscation.decode (line 245), kept abstract: the file   *)
(* holds a header of HeaderLen characters followed by the password with    *)
(* every character moved one place along a wheel; decode moves them back.  *)
(* A text shorter than the header makes decode raise IndexError.           *)
(***************************************************************************)
HeaderLen == 2

Wheel == <<"p", "w", "x", "y">>

WheelIndex(c) == CHOOSE i \in DOMAIN Wheel : Wheel[i] = c

Scramble(c) == Wheel[(WheelIndex(c) % Len(Wheel)) + 1]

Unscramble(c) == Wheel[((WheelIndex(c) + Len(Wheel) - 2) % Len(Wheel)) + 1]

Encode(pw) == <<"x", "y">> \o [i \in DOMAIN pw |-> Scramble(pw[i])]

DecodeFails(s) == Len(s) < HeaderLen

Decode(s) == [i \in 1..(Len(s) - HeaderLen) |-> Unscramble(s[i + HeaderLen])]

CachedPasswords == { <<"p", "w">>, <<"y", "p", "x">> }

IrodsAChoices ==
    { NoValue, Some(<<>>) } \cup { Some(Encode(pw)) : pw \in CachedPasswords }

(***************************************************************************)
(* StorageProvider.__post_init__ (lines 222-264)                           *)
(***************************************************************************)
SslSettings(st) ==
    IF st.use_ssl = Some("True")
    THEN [k \in { "client_server_negotiation", "client_server_policy",
                  "encryption_algorithm", "encryption_key_size",
                  "encryption_num_hash_rounds", "encryption_salt_size",
                  "ssl_verify_server", "ssl_ca_certificate_file" } |-> st[k]]
    ELSE <<>>

CredentialError ==
    "Error: could not retrieve irods_password from settings or ~/.irods/.irodsA file."

\* variant: the configured scheme is kept when the password comes from the cache
ResolveCredentials_KeepScheme(st, cache) ==
    IF st.password = NoValue
    THEN IF cache = NoValue
         THEN [ok |-> FALSE, error |-> CredentialError,
               password |-> NoValue, authentication_scheme |-> NoValue]
         ELSE IF DecodeFails(cache[1])
         THEN [ok |-> FALSE, error |-> "IndexError",
               password |-> NoValue, authentication_scheme |-> NoValue]
         ELSE [ok |-> TRUE, error |-> NoText,
               password |-> Some(Decode(cache[1])),
               authentication_scheme |-> st.authentication_scheme]
    ELSE [ok |-> TRUE, error |-> NoText,
          password |-> st.password,
          authentication_scheme |-> st.authentication_scheme]

\* lines 240-254: the password and scheme the session is opened with
ResolveCredentials(st, cache) ==
    IF st.password = NoValue
    THEN IF cache = NoValue
         THEN [ok |-> FALSE, error |-> CredentialError,
               password |-> NoValue, authentication_scheme |-> NoValue]
         ELSE IF DecodeFails(cache[1])
         THEN [ok |-> FALSE, error |-> "IndexError",
               password |-> NoValue, authentication_scheme |-> NoValue]
         ELSE [ok |-> TRUE, error |-> NoText,
               password |-> Some(Decode(cache[1])),
               authentication_scheme |-> Some("native")]
    ELSE [ok |-> TRUE, error |-> NoText,
          password |-> st.password,
          authentication_scheme |-> st.authentication_scheme]

\* lines 256-264
NewSession(st, cred) ==
    [ host |-> st.host, port |-> st.port, user |-> st.username,
      password |-> cred.password, zone |-> st.zone,
      authentication_scheme |-> cred.authentication_scheme,
      ssl |-> SslSettings(st) ]

\* start-up is not being looked at
InitIdle ==
    /\ explicit = <<>>
    /\ envFile = [state |-> "absent", env |-> <<>>]
    /\ irodsA = NoValue
    /\ settings = NoValue
    /\ sessions = <<>>
    /\ initState = "idle"
    /\ initError = NoText

InitInit ==
    /\ explicit \in ExplicitChoices
    /\ envFile \in EnvFileChoices
    /\ irodsA \in IrodsAChoices
    /\ settings = NoValue
    /\ sessions = <<>>
    /\ initState = "new"
    /\ initError = NoText

\* StorageProviderSettings(...): the constructor, then __post_init__;
\* json.load raises on a malformed descriptor file
SettingsConstruct ==
    /\ initState = "new"
    /\ \/ /\ envFile.state # "malformed"
          /\ settings' = Some(SettingsPostInit(Constructed(explicit), envFile))
          /\ initState' = "configured"
          /\ UNCHANGED initError
       \/ /\ envFile.state = "malformed"
          /\ initState' = "failed"
          /\ initError' = "JSONDecodeError"
          /\ UNCHANGED settings
    /\ UNCHANGED <<explicit, envFile, irodsA, sessions>>
    /\ UNCHANGED <<queryVars, remoteVars>>

\* StorageProvider.__post_init__
ProviderPostInit ==
    /\ initState = "configured"
    /\ LET cred == ResolveCredentials(settings[1], irodsA)
       IN  \/ /\ cred.ok
              /\ sessions' = Append(sessions, NewSession(settings[1], cred))
              /\ initState' = "ready"
              /\ UNCHANGED initError
           \/ /\ ~cred.ok
              /\ initState' = "failed"
              /\ initError' = cred.error
              /\ UNCHANGED sessions
    /\ UNCHANGED <<explicit, envFile, irodsA, settings>>
    /\ UNCHANGED <<queryVars, remoteVars>>

InitNext == SettingsConstruct \/ ProviderPostInit

(***************************************************************************)
(* The remote catalogue as the iRODS client shows it to the plugin.        *)
(* A path is the tuple of its names: <<>> is '/', <<"z">> is the zone.     *)
(***************************************************************************)
Parent(p) == SubSeq(p, 1, Len(p) - 1)

Prefixes(p) == { SubSeq(p, 1, n) : n \in 0..Len(p) }

IsUnder(q, p) == Len(q) > Len(p) /\ SubSeq(q, 1, Len(p)) = p

Last(p) == p[Len(p)]

Reverse(s) == [i \in 1..Len(s) |-> s[Len(s) + 1 - i]]

\* session.collections.get(path): how the lookup ends
CollectionsGet(p) ==
    IF p \in noaccess THEN "CAT_NO_ACCESS_PERMISSION"
    ELSE IF p \in colls THEN "ok"
    ELSE "CollectionDoesNotExist"

\* session.collections.create(path): recursive, and no error for a
\* collection that is there already
CollectionsCreateOutcome(p) ==
    IF \E q \in Prefixes(p) : q \in DOMAIN objs
    THEN "CAT_NAME_EXISTS_AS_DATAOBJ" ELSE "ok"

CollectionsCreated(p) == colls \cup Prefixes(p)

\* session.data_objects.put(local, path): a path that is a collection
\* receives the file under the local file's name
PutTarget(p, name) == IF p \in colls THEN Append(p, name) ELSE p

PutOutcome(p, name) ==
    IF p \in noaccess THEN "CAT_NO_ACCESS_PERMISSION"
    ELSE IF PutTarget(p, name) \in colls THEN "CAT_NAME_EXISTS_AS_COLLECTION"
    ELSE IF Parent(PutTarget(p, name)) \notin colls THEN "CAT_UNKNOWN_COLLECTION"
    ELSE "ok"

ObjsWith(p, data) == [q \in DOMAIN objs \cup {p} |-> IF q = p THEN data ELSE objs[q]]

ObjsWithout(ps) == [q \in DOMAIN objs \ ps |-> objs[q]]

\* session.data_objects.get(path): the parent collection is looked up first
DataObjectsGet(p) ==
    IF CollectionsGet(Parent(p)) # "ok" THEN CollectionsGet(Parent(p))
    ELSE IF p \in DOMAIN objs THEN "ok"
    ELSE "DataObjectDoesNotExist"

\* session.collections.unregister(path)
CollectionsUnregister(p) ==
    IF p \in DOMAIN objs THEN "CAT_NAME_EXISTS_AS_DATAOBJ"
    ELSE IF p \in colls THEN "ok"
    ELSE "CAT_UNKNOWN_COLLECTION"

\* session.data_objects.unregister(path)
DataObjectsUnregister(p) ==
    IF p \in DOMAIN objs THEN "ok" ELSE "CAT_NO_ROWS_FOUND"

(***************************************************************************)
(* Local content: a single file, or a directory of files (depth one).      *)
(***************************************************************************)
MaxFaults == 2

MaxTries == 2

Tasks == {1, 2}

FileNames == {"f1", "f2"}

Contents == {"c1", "c2"}

Truncated == "truncated"

NoFiles == <<>>

LocalFile(data) == [kind |-> "file", data |-> data, files |-> NoFiles]

LocalDir(files) == [kind |-> "dir", data |-> "", files |-> files]

Absent == [kind |-> "absent", data |-> "", files |-> NoFiles]

LocalChoices ==
    { LocalFile(c) : c \in Contents }
      \cup { LocalDir(fs) : fs \in UNION { [N -> Contents] : N \in SUBSET FileNames } }

(***************************************************************************)
(* StorageObject.store_object (lines 414-436)                              *)
(***************************************************************************)
\* PosixPath.parents: the nearest ancestor first, '/' last
Parents(p) == [i \in 1..Len(p) |-> SubSeq(p, 1, Len(p) - i)]

ButLastTwo(s) == IF Len(s) <= 2 THEN <<>> ELSE SubSeq(s, 1, Len(s) - 2)

\* variant: the deepest ancestor is visited first
StoreParents_DeepestFirst(p) == ButLastTwo(Parents(p))

\* self.path.parents[:-2][::-1], line 426
StoreParents(p) == Reverse(ButLastTwo(Parents(p)))

\* variant: a missing collection is passed over
MkdirAfterGet_NoCreate(outcome) ==
    IF outcome \in {"ok", "CAT_NO_ACCESS_PERMISSION", "CollectionDoesNotExist"}
    THEN "next" ELSE "raise"

\* mkdir(path), lines 418-424: what follows the lookup
MkdirAfterGet(outcome) ==
    IF outcome = "CAT_NO_ACCESS_PERMISSION" THEN "next"
    ELSE IF outcome = "CollectionDoesNotExist" THEN "create"
    ELSE IF outcome = "ok" THEN "next"
    ELSE "raise"

\* variant: the target collection of a directory is not made
StoreMkdirs_ParentsOnly(p, loc) == StoreParents(p)

\* the mkdir calls of one store_object call, in order (lines 426-430)
StoreMkdirs(p, loc) ==
    StoreParents(p) \o (IF loc.kind = "dir" THEN <<p>> ELSE <<>>)

\* the files one store_object call uploads (lines 431-436); the local path
\* of the object ends in the name the remote path ends in
StoreUploads(p, loc) ==
    IF loc.kind = "dir"
    THEN { [name |-> n, to |-> Append(p, n), data |-> loc.files[n]]
             : n \in DOMAIN loc.files }
    ELSE { [name |-> Last(p), to |-> p, data |-> loc.data] }

Call(name, arg) == [call |-> name, arg |-> arg]

\* a task that is between calls.  Kept for stating properties: trace (the
\* client calls of the current attempt that got an answer), snap (the remote
\* when the call began), stored (the last store_object call succeeded and
\* remove was not called since), restored (stored, when this call began),
\* clean (no transient failure during this call)
IdleTask(p, loc) ==
    [ path |-> p, local |-> loc, staging |-> Absent,
      op |-> "none", pc |-> "idle", todo |-> <<>>, pending |-> {},
      tries |-> 0, result |-> "none", value |-> "none", err |-> NoText,
      trace |-> <<>>, stored |-> FALSE, restored |-> FALSE, clean |-> TRUE,
      snap |-> [colls |-> {}, objs |-> <<>>] ]

\* the position after the mkdir calls left in todo
AfterMkdirs(t, todo) ==
    IF todo # <<>> THEN "mkdir_get"
    ELSE IF StoreUploads(task[t].path, task[t].local) = {} THEN "return"
    ELSE "put"

\* a first attempt, or the retry wrapper's next attempt, of store_object
StoreAttempt(t, tsk) ==
    [tsk EXCEPT
        !.op = "store",
        !.todo = StoreMkdirs(tsk.path, tsk.local),
        !.pending = StoreUploads(tsk.path, tsk.local),
        !.pc = AfterMkdirs(t, StoreMkdirs(tsk.path, tsk.local)),
        !.tries = tsk.tries + 1,
        !.trace = <<>>,
        !.err = NoText]

\* a call starts: the host engine calls an operation of the object
BeginCall(tsk) ==
    [tsk EXCEPT !.tries = 0, !.result = "none", !.value = "none",
                !.clean = TRUE, !.snap = [colls |-> colls, objs |-> objs]]

StoreBegin(t) ==
    /\ task[t].pc = "idle"
    /\ task' = [task EXCEPT ![t] =
           StoreAttempt(t, [BeginCall(task[t]) EXCEPT
                               !.restored = task[t].stored, !.stored = FALSE])]
    /\ UNCHANGED <<colls, objs, noaccess, faults>>
    /\ UNCHANGED <<queryVars, initVars>>

\* mkdir: self.provider.session.collections.get(path)
MkdirGet(t) ==
    /\ task[t].op = "store" /\ task[t].pc = "mkdir_get"
    /\ LET p    == Head(task[t].todo)
           next == MkdirAfterGet(CollectionsGet(p))
           tr   == Append(task[t].trace, Call("collections.get", p))
       IN  task' = [task EXCEPT ![t] =
                IF next = "next"
                THEN [@ EXCEPT !.todo = Tail(@), !.trace = tr,
                               !.pc = AfterMkdirs(t, Tail(task[t].todo))]
                ELSE IF next = "create"
                THEN [@ EXCEPT !.pc = "mkdir_create", !.trace = tr]
                ELSE [@ EXCEPT !.pc = "raise", !.trace = tr,
                               !.err = CollectionsGet(p)]]
    /\ UNCHANGED <<colls, objs, noaccess, faults>>
    /\ UNCHANGED <<queryVars, initVars>>

\* mkdir: self.provider.session.collections.create(path)
MkdirCreate(t) ==
    /\ task[t].op = "store" /\ task[t].pc = "mkdir_create"
    /\ LET p  == Head(task[t].todo)
           tr == Append(task[t].trace, Call("collections.create", p))
       IN  IF CollectionsCreateOutcome(p) = "ok"
           THEN /\ colls' = CollectionsCreated(p)
                /\ task' = [task EXCEPT ![t] =
                       [@ EXCEPT !.todo = Tail(@), !.trace = tr,
                                 !.pc = AfterMkdirs(t, Tail(task[t].todo))]]
           ELSE /\ task' = [task EXCEPT ![t] =
                       [@ EXCEPT !.pc = "raise", !.trace = tr,
                                 !.err = CollectionsCreateOutcome(p)]]
                /\ UNCHANGED colls
    /\ UNCHANGED <<objs, noaccess, faults>>
    /\ UNCHANGED <<queryVars, initVars>>

\* self.provider.session.data_objects.put(...): one file; iterdir() gives
\* the files of a directory in no particular order
StorePut(t) ==
    /\ task[t].op = "store" /\ task[t].pc = "put"
    /\ \E u \in task[t].pending :
         LET tr  == Append(task[t].trace, Call("data_objects.put", u.to))
             out == PutOutcome(u.to, u.name)
         IN  IF out = "ok"
             THEN /\ objs' = ObjsWith(PutTarget(u.to, u.name), u.data)
                  /\ task' = [task EXCEPT ![t] =
                         [@ EXCEPT !.pending = @ \ {u}, !.trace = tr,
                                   !.pc = IF task[t].pending = {u}
                                          THEN "return" ELSE "put"]]
             ELSE /\ task' = [task EXCEPT ![t] =
                         [@ EXCEPT !.pc = "raise", !.trace = tr, !.err = out]]
                  /\ UNCHANGED objs
    /\ UNCHANGED <<colls, noaccess, faults>>
    /\ UNCHANGED <<queryVars, initVars>>

(***************************************************************************)
(* StorageObject.retrieve_object (lines 393-409)                           *)
(***************************************************************************)
RetrieveAttempt(tsk) ==
    [tsk EXCEPT !.op = "retrieve", !.pc = "ret_coll_get",
                !.tries = tsk.tries + 1, !.trace = <<>>, !.err = NoText]

\* the staging location is a separate one, empty when the call starts
RetrieveBegin(t) ==
    /\ task[t].pc = "idle"
    /\ task' = [task EXCEPT ![t] =
           RetrieveAttempt([BeginCall(task[t]) EXCEPT !.staging = Absent])]
    /\ UNCHANGED <<colls, objs, noaccess, faults>>
    /\ UNCHANGED <<queryVars, initVars>>

\* the data objects collection.walk() reaches from a collection
WalkObjects(p) == { q \in DOMAIN objs : IsUnder(q, p) }

\* lines 399-405: the collection lookup, then the walk; the first data
\* object found is fetched through self.provoder, an attribute the object
\* does not have
RetrieveAfterCollectionGet(outcome, found) ==
    IF outcome = "CollectionDoesNotExist" THEN "file"
    ELSE IF outcome # "ok" THEN "raise"
    ELSE IF found # {} THEN "AttributeError"
    ELSE "return"

RetrieveCollGet(t) ==
    /\ task[t].op = "retrieve" /\ task[t].pc = "ret_coll_get"
    /\ LET p    == task[t].path
           out  == CollectionsGet(p)
           next == RetrieveAfterCollectionGet(out, WalkObjects(p))
           tr   == Append(task[t].trace, Call("collections.get", p))
       IN  task' = [task EXCEPT ![t] =
                IF next = "file" THEN [@ EXCEPT !.pc = "ret_obj_get", !.trace = tr]
                ELSE IF next = "return" THEN [@ EXCEPT !.pc = "return", !.trace = tr]
                ELSE IF next = "AttributeError"
                THEN [@ EXCEPT !.pc = "raise", !.trace = tr, !.err = "AttributeError"]
                ELSE [@ EXCEPT !.pc = "raise", !.trace = tr, !.err = out]]
    /\ UNCHANGED <<colls, objs, noaccess, faults>>
    /\ UNCHANGED <<queryVars, initVars>>

\* lines 407-409: data_objects.get(path, local_path, FORCE): the parent is
\* looked up, the local file is opened for writing, the object is read
RetrieveObjGet(t) ==
    /\ task[t].op = "retrieve" /\ task[t].pc = "ret_obj_get"
    /\ LET p   == task[t].path
           out == DataObjectsGet(p)
           tr  == Append(task[t].trace, Call("data_objects.get", p))
       IN  task' = [task EXCEPT ![t] =
                IF out = "ok"
                THEN [@ EXCEPT !.pc = "return", !.trace = tr,
                               !.staging = LocalFile(objs[p])]
                ELSE IF out = "DataObjectDoesNotExist"
                THEN [@ EXCEPT !.pc = "raise", !.trace = tr, !.err = out,
                               !.staging = LocalFile("")]
                ELSE [@ EXCEPT !.pc = "raise", !.trace = tr, !.err = out]]
    /\ UNCHANGED <<colls, objs, noaccess, faults>>
    /\ UNCHANGED <<queryVars, initVars>>

(***************************************************************************)
(* StorageObject.exists (lines 363-374)                                    *)
(***************************************************************************)
ExistsAttempt(tsk) ==
    [tsk EXCEPT !.op = "exists", !.pc = "ex_get",
                !.tries = tsk.tries + 1, !.trace = <<>>, !.err = NoText]

ExistsBegin(t) ==
    /\ task[t].pc = "idle"
    /\ task' = [task EXCEPT ![t] = ExistsAttempt(BeginCall(task[t]))]
    /\ UNCHANGED <<colls, objs, noaccess, faults>>
    /\ UNCHANGED <<queryVars, initVars>>

\* lines 367-371
ExistsAfterGet(outcome) ==
    IF outcome = "ok" THEN "True"
    ELSE IF outcome \in {"CollectionDoesNotExist", "DataObjectDoesNotExist"}
    THEN "False"
    ELSE "raise"

ExistsGet(t) ==
    /\ task[t].op = "exists" /\ task[t].pc = "ex_get"
    /\ LET p   == task[t].path
           out == DataObjectsGet(p)
           tr  == Append(task[t].trace, Call("data_objects.get", p))
       IN  task' = [task EXCEPT ![t] =
                IF ExistsAfterGet(out) = "raise"
                THEN [@ EXCEPT !.pc = "raise", !.trace = tr, !.err = out]
                ELSE [@ EXCEPT !.pc = "return", !.trace = tr,
                               !.value = ExistsAfterGet(out)]]
    /\ UNCHANGED <<colls, objs, noaccess, faults>>
    /\ UNCHANGED <<queryVars, initVars>>

(***************************************************************************)
(* StorageObject.remove (lines 438-444)                                    *)
(***************************************************************************)
RemoveAttempt(tsk) ==
    [tsk EXCEPT !.op = "remove", !.pc = "rm_coll",
                !.tries = tsk.tries + 1, !.trace = <<>>, !.err = NoText]

RemoveBegin(t) ==
    /\ task[t].pc = "idle"
    /\ task' = [task EXCEPT ![t] =
           RemoveAttempt([BeginCall(task[t]) EXCEPT !.stored = FALSE])]
    /\ UNCHANGED <<colls, objs, noaccess, faults>>
    /\ UNCHANGED <<queryVars, initVars>>

\* variant: the conflict is not caught
RemoveAfterCollection_NoFallback(outcome) ==
    IF outcome = "ok" THEN "return" ELSE "raise"

\* lines 441-444: what follows collections.unregister
RemoveAfterCollection(outcome) ==
    IF outcome = "ok" THEN "return"
    ELSE IF outcome = "CAT_NAME_EXISTS_AS_DATAOBJ" THEN "leaf"
    ELSE "raise"

RemoveColl(t) ==
    /\ task[t].op = "remove" /\ task[t].pc = "rm_coll"
    /\ LET p    == task[t].path
           out  == CollectionsUnregister(p)
           next == RemoveAfterCollection(out)
           tr   == Append(task[t].trace, Call("collections.unregister", p))
       IN  /\ task' = [task EXCEPT ![t] =
                  IF next = "return" THEN [@ EXCEPT !.pc = "return", !.trace = tr]
                  ELSE IF next = "leaf" THEN [@ EXCEPT !.pc = "rm_obj", !.trace = tr]
                  ELSE [@ EXCEPT !.pc = "raise", !.trace = tr, !.err = out]]
           /\ IF out = "ok"
              THEN /\ colls' = { c \in colls : c # p /\ ~IsUnder(c, p) }
                   /\ objs' = ObjsWithout(WalkObjects(p))
              ELSE UNCHANGED <<colls, objs>>
    /\ UNCHANGED <<noaccess, faults>>
    /\ UNCHANGED <<queryVars, initVars>>

RemoveObj(t) ==
    /\ task[t].op = "remove" /\ task[t].pc = "rm_obj"
    /\ LET p   == task[t].path
           out == DataObjectsUnregister(p)
           tr  == Append(task[t].trace, Call("data_objects.unregister", p))
       IN  IF out = "ok"
           THEN /\ objs' = ObjsWithout({p})
                /\ task' = [task EXCEPT ![t] =
                       [@ EXCEPT !.pc = "return", !.trace = tr]]
           ELSE /\ task' = [task EXCEPT ![t] =
                       [@ EXCEPT !.pc = "raise", !.trace = tr, !.err = out]]
                /\ UNCHANGED objs
    /\ UNCHANGED <<colls, noaccess, faults>>
    /\ UNCHANGED <<queryVars, initVars>>

(***************************************************************************)
(* retry_decorator (lines 363, 393, 414, 438) and the network.             *)
(* A call to the server may fail with a transient error: before it did     *)
(* anything, or after the server did the work and the answer was lost, or  *)
(* in the middle of a transfer.                                            *)
(***************************************************************************)
CallPcs == { "mkdir_get", "mkdir_create", "put", "ret_coll_get",
             "ret_obj_get", "ex_get", "rm_coll", "rm_obj" }

Failed(tsk) ==
    [tsk EXCEPT !.pc = "raise", !.err = "Transient", !.clean = FALSE]

FailBefore(t) ==
    /\ task[t].pc \in CallPcs
    /\ faults < MaxFaults
    /\ faults' = faults + 1
    /\ task' = [task EXCEPT ![t] = Failed(@)]
    /\ UNCHANGED <<colls, objs, noaccess>>
    /\ UNCHANGED <<queryVars, initVars>>

FailAfterCreate(t) ==
    /\ task[t].pc = "mkdir_create"
    /\ CollectionsCreateOutcome(Head(task[t].todo)) = "ok"
    /\ faults < MaxFaults
    /\ faults' = faults + 1
    /\ colls' = CollectionsCreated(Head(task[t].todo))
    /\ task' = [task EXCEPT ![t] = Failed(@)]
    /\ UNCHANGED <<objs, noaccess>>
    /\ UNCHANGED <<queryVars, initVars>>

FailDuringPut(t) ==
    /\ task[t].pc = "put"
    /\ faults < MaxFaults
    /\ \E u \in task[t].pending : \E data \in {Truncated, u.data} :
          /\ PutOutcome(u.to, u.name) = "ok"
          /\ objs' = ObjsWith(PutTarget(u.to, u.name), data)
    /\ faults' = faults + 1
    /\ task' = [task EXCEPT ![t] = Failed(@)]
    /\ UNCHANGED <<colls, noaccess>>
    /\ UNCHANGED <<queryVars, initVars>>

FailDuringDownload(t) ==
    /\ task[t].pc = "ret_obj_get"
    /\ DataObjectsGet(task[t].path) = "ok"
    /\ faults < MaxFaults
    /\ faults' = faults + 1
    /\ task' = [task EXCEPT ![t] = [Failed(@) EXCEPT !.staging = LocalFile(Truncated)]]
    /\ UNCHANGED <<colls, objs, noaccess>>
    /\ UNCHANGED <<queryVars, initVars>>

FailAfterUnregister(t) ==
    /\ faults < MaxFaults
    /\ \/ /\ task[t].pc = "rm_coll"
          /\ CollectionsUnregister(task[t].path) = "ok"
          /\ colls' = { c \in colls : c # task[t].path /\ ~IsUnder(c, task[t].path) }
          /\ objs' = ObjsWithout(WalkObjects(task[t].path))
       \/ /\ task[t].pc = "rm_obj"
          /\ DataObjectsUnregister(task[t].path) = "ok"
          /\ objs' = ObjsWithout({task[t].path})
          /\ UNCHANGED colls
    /\ faults' = faults + 1
    /\ task' = [task EXCEPT ![t] = Failed(@)]
    /\ UNCHANGED noaccess
    /\ UNCHANGED <<queryVars, initVars>>

NextAttempt(t, tsk) ==
    IF tsk.op = "store" THEN StoreAttempt(t, tsk)
    ELSE IF tsk.op = "retrieve" THEN RetrieveAttempt(tsk)
    ELSE IF tsk.op = "exists" THEN ExistsAttempt(tsk)
    ELSE RemoveAttempt(tsk)

\* the wrapper catches the exception of an attempt: it calls the method
\* again, or after the last attempt lets the exception reach the caller
Raised(t) ==
    /\ task[t].pc = "raise"
    /\ task' = [task EXCEPT ![t] =
           IF task[t].tries < MaxTries
           THEN NextAttempt(t, task[t])
           ELSE [@ EXCEPT !.pc = "idle", !.result = "error"]]
    /\ UNCHANGED <<colls, objs, noaccess, faults>>
    /\ UNCHANGED <<queryVars, initVars>>

\* the method returns to the caller
Returned(t) ==
    /\ task[t].pc = "return"
    /\ task' = [task EXCEPT ![t] =
           [@ EXCEPT !.pc = "idle", !.result = "ok",
                     !.stored = IF task[t].op = "store" THEN TRUE ELSE @]]
    /\ UNCHANGED <<colls, objs, noaccess, faults>>
    /\ UNCHANGED <<queryVars, initVars>>

(***************************************************************************)
(* One object, its operations called one after another                     *)
(***************************************************************************)
Zone == <<"z">>

PathF == <<"z", "a", "b", "f">>

PathG == <<"z", "a", "b", "g">>

PathH == <<"z", "a", "c", "g">>

\* the remote before the run: '/', the zone, some of the ancestors of the
\* target, and possibly something at the target already
RemoteChoices ==
    { [colls |-> {<<>>, Zone} \cup anc \cup tc, objs |-> ob, noaccess |-> na] :
        anc \in { {}, {<<"z","a">>}, {<<"z","a">>, <<"z","a","b">>} },
        tc \in { {}, {PathF} },
        ob \in { <<>>, [q \in {PathF} |-> "old"] },
        na \in SUBSET { <<"z","a">>, <<"z","a","b">> } }

RemoteIdle ==
    /\ colls = {}
    /\ objs = <<>>
    /\ noaccess = {}
    /\ faults = 0
    /\ task = [t \in Tasks |-> IdleTask(<<>>, Absent)]

SequentialInit ==
    /\ QueryIdle
    /\ InitIdle
    /\ \E r \in RemoteChoices :
          /\ r.noaccess \subseteq r.colls
          /\ (PathF \in r.colls \/ PathF \in DOMAIN r.objs) => Parent(PathF) \in r.colls
          /\ ~(PathF \in r.colls /\ PathF \in DOMAIN r.objs)
          /\ colls = r.colls
          /\ objs = r.objs
          /\ noaccess = r.noaccess
    /\ faults = 0
    /\ \E loc \in LocalChoices :
          task = [t \in Tasks |-> IF t = 1 THEN IdleTask(PathF, loc)
                                  ELSE IdleTask(<<>>, Absent)]

SequentialNext ==
    \/ StoreBegin(1) \/ MkdirGet(1) \/ MkdirCreate(1) \/ StorePut(1)
    \/ RetrieveBegin(1) \/ RetrieveCollGet(1) \/ RetrieveObjGet(1)
    \/ ExistsBegin(1) \/ ExistsGet(1)
    \/ RemoveBegin(1) \/ RemoveColl(1) \/ RemoveObj(1)
    \/ FailBefore(1) \/ FailAfterCreate(1) \/ FailDuringPut(1)
    \/ FailDuringDownload(1) \/ FailAfterUnregister(1)
    \/ Raised(1) \/ Returned(1)

SpecSequential == SequentialInit /\ [][SequentialNext]_vars

(***************************************************************************)
(* Two parallel tasks, each storing its own object through the one session *)
(***************************************************************************)
ParallelLocals == { LocalFile("c1"), LocalDir(<<>>), LocalDir([n \in {"f1"} |-> "c2"]) }

ParallelInit ==
    /\ QueryIdle
    /\ InitIdle
    /\ colls \in { {<<>>, Zone}, {<<>>, Zone, <<"z","a">>} }
    /\ objs = <<>>
    /\ noaccess = {}
    /\ faults = 0
    /\ \E l1 \in ParallelLocals, l2 \in ParallelLocals, p2 \in {PathG, PathH} :
          task = [t \in Tasks |-> IF t = 1 THEN IdleTask(PathF, l1)
                                  ELSE IdleTask(p2, l2)]

\* each task calls store_object once
ParallelStoreBegin(t) ==
    /\ task[t].result = "none"
    /\ StoreBegin(t)

ParallelNext ==
    \E t \in Tasks :
        \/ ParallelStoreBegin(t) \/ MkdirGet(t) \/ MkdirCreate(t) \/ StorePut(t)
        \/ FailBefore(t) \/ FailAfterCreate(t) \/ FailDuringPut(t)
        \/ Raised(t) \/ Returned(t)

SpecParallel == ParallelInit /\ [][ParallelNext]_vars

(***************************************************************************)
(* Properties of the object operations                                     *)
(***************************************************************************)
\* the ancestors of /z/a/b/f below the zone, nearest to the root first
AncestorsOfF == << <<"z", "a">>, <<"z", "a", "b">> >>

\* the staging location holds the files of the local content, byte for byte
SameContent(staging, loc) ==
    IF loc.kind = "file"
    THEN staging.kind = "file" /\ staging.data = loc.data
    ELSE staging.kind # "file" /\ staging.files = loc.files

\* the remote holds the local content at the path
StoredAt(p, loc) ==
    IF loc.kind = "file"
    THEN p \in DOMAIN objs /\ objs[p] = loc.data
    ELSE /\ p \in colls
         /\ \A n \in DOMAIN loc.files :
               Append(p, n) \in DOMAIN objs /\ objs[Append(p, n)] = loc.files[n]

Seq1 == task[1]

HasCall(trace, name) == \E i \in DOMAIN trace : trace[i].call = name

\* C1: store_object() then retrieve_object() into a separate, empty staging
\* location completes without error and leaves there exactly the file names
\* and contents of the local content, for a single file and for a directory
\* of files.
C1_RoundTrip ==
    ( /\ Seq1.op = "retrieve" /\ Seq1.pc = "idle"
      /\ Seq1.stored
      /\ StoredAt(PathF, Seq1.local)
      /\ faults = 0 /\ noaccess = {} ) =>
        /\ Seq1.result = "ok"
        /\ SameContent(Seq1.staging, Seq1.local)

\* the part of C1 the code keeps: the round trip of a single file
C1_RoundTripFile ==
    ( /\ Seq1.op = "retrieve" /\ Seq1.pc = "idle"
      /\ Seq1.stored
      /\ Seq1.local.kind = "file"
      /\ StoredAt(PathF, Seq1.local)
      /\ Seq1.clean /\ noaccess = {} ) =>
        /\ Seq1.result = "ok"
        /\ SameContent(Seq1.staging, Seq1.local)

\* C2: exists() returns false and does not raise for a path absent as data
\* object and as collection, and returns true in every state after a
\* successful store_object() on the path (a file or a directory) until the
\* path is removed.
C2_ExistsAbsentAndStored ==
    ( /\ Seq1.op = "exists" /\ Seq1.pc = "idle"
      /\ faults = 0 /\ noaccess = {} ) =>
        /\ (PathF \notin colls /\ PathF \notin DOMAIN objs) =>
               (Seq1.result = "ok" /\ Seq1.value = "False")
        /\ (Seq1.stored /\ StoredAt(PathF, Seq1.local)) =>
               (Seq1.result = "ok" /\ Seq1.value = "True")

\* the part of C2 the code keeps: false for an absent path, true for a
\* stored single file
C2_ExistsAbsentAndStoredFile ==
    ( /\ Seq1.op = "exists" /\ Seq1.pc = "idle"
      /\ Seq1.clean /\ Parent(PathF) \notin noaccess ) =>
        /\ (PathF \notin colls /\ PathF \notin DOMAIN objs) =>
               (Seq1.result = "ok" /\ Seq1.value = "False")
        /\ (Seq1.stored /\ Seq1.local.kind = "file" /\ StoredAt(PathF, Seq1.local)) =>
               (Seq1.result = "ok" /\ Seq1.value = "True")

\* C3: remove() on a path stored as a leaf data object succeeds: the path is
\* first deleted as a collection, the 'name exists as data object' conflict
\* makes it delete the path as a leaf entry, after which the path is absent
\* and no error reaches the caller; any other error propagates.
C3_RemoveLeaf ==
    ( /\ Seq1.op = "remove" /\ Seq1.pc = "idle"
      /\ PathF \in DOMAIN Seq1.snap.objs ) =>
        /\ Seq1.result = "ok" =>
               (PathF \notin DOMAIN objs /\ PathF \notin colls)
        /\ Seq1.clean =>
               /\ Seq1.result = "ok"
               /\ Seq1.trace = << Call("collections.unregister", PathF),
                                  Call("data_objects.unregister", PathF) >>
        /\ Seq1.result = "error" =>
               /\ ~Seq1.clean
               /\ Seq1.err \in {"Transient", "CAT_UNKNOWN_COLLECTION"}

C3_Witness ==
    /\ Seq1.op = "remove" /\ Seq1.pc = "idle"
    /\ PathF \in DOMAIN Seq1.snap.objs
    /\ Seq1.snap.objs[PathF] = Seq1.local.data
    /\ Seq1.result = "ok"
    /\ Len(Seq1.trace) = 2

\* the collections.get calls of a trace, in order
RECURSIVE Lookups(_)
Lookups(trace) ==
    IF trace = <<>> THEN <<>>
    ELSE IF Head(trace).call = "collections.get"
    THEN <<Head(trace).arg>> \o Lookups(Tail(trace))
    ELSE Lookups(Tail(trace))

IsPrefixOf(a, b) == Len(a) <= Len(b) /\ SubSeq(b, 1, Len(a)) = a

\* C9: before store_object() issues an upload every ancestor of the target
\* except the two topmost exists as a collection: the ancestors are looked
\* up from the shallowest to the deepest, a missing one is created, an
\* existing one is left alone, a 'no access' lookup is tolerated and creates
\* nothing, and any other lookup error propagates with no upload performed.
C9_AncestorsBeforeUpload ==
    Seq1.op = "store" =>
        /\ (Seq1.pc = "put" \/ HasCall(Seq1.trace, "data_objects.put")) =>
               /\ \A i \in DOMAIN AncestorsOfF : AncestorsOfF[i] \in colls
               /\ IsPrefixOf(AncestorsOfF, Lookups(Seq1.trace))
        /\ \/ IsPrefixOf(Lookups(Seq1.trace), AncestorsOfF)
           \/ IsPrefixOf(AncestorsOfF, Lookups(Seq1.trace))
        /\ Seq1.pc = "mkdir_create" =>
               /\ Head(Seq1.todo) \notin colls
               /\ Head(Seq1.todo) \notin noaccess
        /\ \A i \in DOMAIN Seq1.trace :
               Seq1.trace[i].call = "collections.create" =>
                   /\ i > 1
                   /\ Seq1.trace[i - 1] = Call("collections.get", Seq1.trace[i].arg)
                   /\ Seq1.trace[i].arg \notin noaccess
        /\ Seq1.err # "CAT_NO_ACCESS_PERMISSION"
        /\ (Seq1.pc = "raise" /\ ~IsPrefixOf(AncestorsOfF, Lookups(Seq1.trace))) =>
               ~HasCall(Seq1.trace, "data_objects.put")

C9_Witness ==
    /\ Seq1.op = "store" /\ Seq1.pc = "idle" /\ Seq1.result = "ok"
    /\ noaccess = {<<"z", "a">>}
    /\ <<"z", "a", "b">> \notin Seq1.snap.colls
    /\ Seq1.trace[2] = Call("collections.get", <<"z", "a", "b">>)
    /\ Seq1.trace[3] = Call("collections.create", <<"z", "a", "b">>)
    /\ HasCall(Seq1.trace, "data_objects.put")

\* the remote after one uninterrupted successful store_object() that began
\* with the remote r
ExpectedColls(r, p, loc) ==
    r.colls \cup Range(AncestorsOfF) \cup (IF loc.kind = "dir" THEN {p} ELSE {})

ExpectedObjs(r, p, loc) ==
    LET written ==
            IF loc.kind = "dir"
            THEN [q \in { Append(p, n) : n \in DOMAIN loc.files } |-> loc.files[Last(q)]]
            ELSE IF p \in r.colls
            THEN [q \in {Append(p, Last(p))} |-> loc.data]
            ELSE [q \in {p} |-> loc.data]
    IN  [q \in DOMAIN r.objs \cup DOMAIN written |->
            IF q \in DOMAIN written THEN written[q] ELSE r.objs[q]]

\* a remote on which store_object() cannot succeed whatever the network
\* does: a directory is to be stored where a data object is
CannotStore(r, p, loc) == loc.kind = "dir" /\ p \in DOMAIN r.objs

\* C10: store_object() can be repeated: when an attempt fails with a
\* transient error at any step and the call is made again from the start,
\* the repeated call succeeds and the remote ends as after one uninterrupted
\* successful run; a call after a successful one leaves the remote as it is.
C10_StoreRepeatable ==
    (Seq1.op = "store" /\ Seq1.pc = "idle") =>
        /\ Seq1.result = "ok" =>
               /\ colls = ExpectedColls(Seq1.snap, PathF, Seq1.local)
               /\ objs = ExpectedObjs(Seq1.snap, PathF, Seq1.local)
        /\ Seq1.result = "error" =>
               \/ Seq1.err = "Transient"
               \/ CannotStore(Seq1.snap, PathF, Seq1.local)
        /\ (Seq1.result = "ok" /\ Seq1.restored) =>
               (colls = Seq1.snap.colls /\ objs = Seq1.snap.objs)

C10_Witness ==
    /\ Seq1.op = "store" /\ Seq1.pc = "idle" /\ Seq1.result = "ok"
    /\ Seq1.tries = 2 /\ ~Seq1.clean
    /\ DOMAIN Seq1.local.files = FileNames
    /\ <<"z", "a">> \notin Seq1.snap.colls
    /\ Seq1.snap.objs = <<>>

\* C8: two store_object() calls for different targets that share an ancestor
\* collection not yet there may interleave in any order, each looking the
\* ancestor up and then creating it: both calls complete without error and
\* both targets end up stored.
C8_ParallelStores ==
    /\ \A t \in Tasks :
          (task[t].pc = "idle" /\ task[t].result # "none") =>
              /\ task[t].clean => task[t].result = "ok"
              /\ task[t].result = "error" => task[t].err = "Transient"
    /\ (\A t \in Tasks : task[t].pc = "idle" /\ task[t].result = "ok") =>
          \A t \in Tasks : StoredAt(task[t].path, task[t].local)

C8_Witness ==
    /\ \A t \in Tasks :
          /\ task[t].pc = "idle" /\ task[t].result = "ok" /\ task[t].clean
          /\ task[t].trace[1] = Call("collections.get", <<"z", "a">>)
          /\ task[t].trace[2] = Call("collections.create", <<"z", "a">>)
    /\ task[1].local.kind # task[2].local.kind

StartInit == InitInit /\ QueryIdle /\ RemoteIdle

SpecInit == StartInit /\ [][InitNext]_vars

LocatorInit == QueryInit /\ InitIdle /\ RemoteIdle

SpecQuery == LocatorInit /\ [][QueryNext]_vars

(***************************************************************************)
(* Properties of start-up                                                  *)
(***************************************************************************)
\* the descriptor-file key of a settings field, if it has one
KeyOf(f) ==
    LET ks == { i \in DOMAIN EnvKeys : EnvKeys[i][2] = f }
    IN  IF ks = {} THEN NoText ELSE EnvKeys[CHOOSE i \in ks : TRUE][1]

FileHasKey(f) ==
    envFile.state = "ok" /\ KeyOf(f) \in DOMAIN envFile.env

\* C4 as stated: for every field with a descriptor-file key the value is the
\* explicitly supplied one if given, else the file's if the key is present,
\* else the default (explicit > environment file > default).
C4_ExplicitOverFile ==
    settings # NoValue =>
        \A f \in FieldNames : KeyOf(f) # NoText =>
            settings[1][f] =
                IF f \in DOMAIN explicit THEN explicit[f]
                ELSE IF FileHasKey(f) THEN envFile.env[KeyOf(f)]
                ELSE FieldDefaults[f]

\* C4 as amended: for every field with a descriptor-file key the value is the
\* file's if the key is present, else the explicitly supplied one if given,
\* else the default (environment file > explicit > default).
C4_FileOverExplicit ==
    settings # NoValue =>
        \A f \in FieldNames : KeyOf(f) # NoText =>
            settings[1][f] =
                IF FileHasKey(f) THEN envFile.env[KeyOf(f)]
                ELSE IF f \in DOMAIN explicit THEN explicit[f]
                ELSE FieldDefaults[f]

C4_Witness ==
    /\ settings # NoValue
    /\ "host" \in DOMAIN explicit
    /\ FileHasKey("host")
    /\ explicit["host"] # envFile.env["irods_host"]
    /\ ~FileHasKey("encryption_key_size")
    /\ "encryption_key_size" \in DOMAIN explicit
    /\ ~FileHasKey("authentication_scheme")
    /\ "authentication_scheme" \notin DOMAIN explicit

\* C5: start-up resolves the password before the session is opened: a
\* configured password goes with the configured scheme; without one the
\* password is decoded from the credential cache and the scheme is native;
\* without one and without a readable cache start-up fails with the fatal
\* error and no session is opened; a successful start-up opens exactly one
\* session.
C5_CredentialResolution ==
    /\ initState = "ready" =>
          /\ Len(sessions) = 1
          /\ settings[1].password # NoValue =>
                /\ sessions[1].password = settings[1].password
                /\ sessions[1].authentication_scheme
                       = settings[1].authentication_scheme
          /\ settings[1].password = NoValue =>
                /\ \E pw \in CachedPasswords :
                       /\ irodsA = Some(Encode(pw))
                       /\ sessions[1].password = Some(pw)
                /\ sessions[1].authentication_scheme = Some("native")
    /\ initState # "ready" => sessions = <<>>
    /\ (initState \in {"ready", "failed"} /\ settings # NoValue
          /\ settings[1].password = NoValue /\ irodsA = NoValue) =>
          /\ initState = "failed"
          /\ initError = CredentialError

C5_Witness ==
    /\ initState = "ready"
    /\ settings[1].password = NoValue
    /\ settings[1].authentication_scheme # Some("native")
    /\ sessions[1].password = Some(<<"y", "p", "x">>)

(***************************************************************************)
(* Properties of query validation and path resolution                      *)
(***************************************************************************)
HasWildcard(q) == "{" \in Range(q)

\* a locator written as scheme://host/p1/.../pn (n >= 0) whose path segments
\* are plain names: its path component is empty exactly when n = 0
HasPlainPath(p) ==
    /\ p.sep = <<":","/","/">>
    /\ \A i \in DOMAIN p.segs : p.segs[i] \in PlainSegs

\* C6: is_valid_query(q) is valid exactly when q parses with scheme 'irods'
\* and a non-empty path component, wildcard placeholders included; every
\* other query gets an invalid result carrying the query and a non-empty
\* reason.
C6_ValidIffIrodsSchemeAndPath ==
    validation # NoValue =>
        LET v == validation[1]
            parsed == UrlParse(query)
        IN  /\ v.valid <=> (parsed.scheme = IrodsScheme /\ parsed.path # <<>>)
            /\ HasPlainPath(parts) =>
                   (v.valid <=> (LowerText(parts.scheme) = IrodsScheme
                                    /\ parts.segs # <<>>))
            /\ v.query = query
            /\ ~v.valid => (v.reason # NoText /\ v.reason # "")

C6_Witness ==
    /\ validation # NoValue
    /\ validation[1].valid
    /\ HasWildcard(query)
    /\ HasPlainPath(parts)

\* a locator of the form scheme://H/p1/.../pn with a scheme, a host segment
\* and path segments that are plain names
IsPlainLocator(p) ==
    /\ p.scheme # <<>>
    /\ p.sep = <<":","/","/">>
    /\ p.host \in PlainSegs \cup {<<"z">>}
    /\ p.segs # <<>>
    /\ \A i \in DOMAIN p.segs : p.segs[i] \in PlainSegs

\* C7: for a locator scheme://H/p1/p2 the resolved remote path is /H/p1/p2
\* and local_suffix() is H/p1/p2.
C7_ResolvedPathAndSuffix ==
    IsPlainLocator(parts) =>
        /\ objPath # NoValue =>
               objPath[1] = <<"/">> \o parts.host \o PathText(parts.segs)
        /\ suffix # NoValue =>
               suffix[1] = parts.host \o PathText(parts.segs)

C7_Witness ==
    /\ IsPlainLocator(parts)
    /\ Len(parts.segs) = 2
    /\ suffix # NoValue

=============================================================================
